---- MODULE Spec2Model ----
(***************************************************************************)
(* Lossy casts from a circuit Scalar (circuit/types/src/cast_lossy/        *)
(* scalar.rs) to Address, Boolean, Group, Field, Integer and Scalar, and   *)
(* what each cast adds to the one constraint system it runs on.            *)
(*                                                                         *)
(* A scalar value is a natural number below 2^251.  TLC's integers are 32  *)
(* bits wide, so a value is carried as a little-endian sequence of digits  *)
(* of LimbBits bits; every conversion (to bits, from bits) is computed by  *)
(* division and weighted sums on those digits.                             *)
(***************************************************************************)
EXTENDS Integers, Sequences, FiniteSets

\* ---------------------------------------------------------------- bounds

\* Number of casts performed on one constraint system.
MaxCasts == 2

\* Width of one digit of a big value.
LimbBits == 16

\* ------------------------------------------------------ program constants

\* Bits of a scalar's decomposition: one constant per bit in Constant mode.
SIZE_IN_BITS == 251

\* Private variables and constraints of a Public/Private decomposition.
DECOMPOSE_PRIVATE == 501

DECOMPOSE_CONSTRAINTS == 503

\* Upper bound on the constants of a Constant-mode cast to Address or Group.
REINTERPRET_MAX_CONSTANTS == 11

\* How many of the admitted constant counts, from 0 up, are explored.
MaxSampledConstants == 1

\* Count of a Public/Private cast to Address or Group.
REINTERPRET_CONSTANTS == 4

REINTERPRET_PRIVATE == 15

REINTERPRET_CONSTRAINTS == 13

Modes == {"Constant", "Public", "Private"}

\* The integer types: I8 .. I128, U8 .. U128.
Widths == {8, 16, 32, 64, 128}

IntegerTypes == [bits : Widths, signed : BOOLEAN]

\* ------------------------------------------------------------ big values

NumLimbs == (SIZE_IN_BITS + LimbBits - 1) \div LimbBits

\* The value whose set bits are exactly the positions in S.
RECURSIVE SumPow2(_, _)
SumPow2(S, base) ==
    IF S = {} THEN 0
    ELSE LET i == CHOOSE x \in S : TRUE
         IN  2 ^ (i - base) + SumPow2(S \ {i}, base)

FromBitSet(S) ==
    [k \in 1..NumLimbs |->
        SumPow2({i \in S : (k - 1) * LimbBits <= i /\ i < k * LimbBits},
                (k - 1) * LimbBits)]

\* Bit j (0 = least significant) of a big value.
BitOf(value, j) ==
    (value[(j \div LimbBits) + 1] \div (2 ^ (j % LimbBits))) % 2 = 1

\* The operand values of the tests: zero, one, and values standing for the
\* uniformly random ones, chosen around the integer widths and the top bit.
\* Every one is below 2^250 + 2^247, hence below the scalar modulus.
Zero == FromBitSet({})

One == FromBitSet({0})

\* Agrees with One on the low 128 bits; its top bit (250) is set.
HighOne == FromBitSet({0, 200, 250})

\* Every sign bit (7, 15, 31, 63, 127) set, the lowest bit clear.
SignBits == FromBitSet({1, 7, 15, 31, 63, 127, 128})

\* Bits on both sides of every width.
Mixed == FromBitSet({0, 2, 8, 14, 16, 30, 33, 62, 64, 126, 130, 249})

ScalarValues == {Zero, One, HighOne, SignBits, Mixed}

\* ------------------------------------------------------------- counting

Count(c, pu, pr, cs) ==
    [constants |-> c, public |-> pu, private |-> pr, constraints |-> cs]

ZeroCount == Count(0, 0, 0, 0)

AddCount(a, b) ==
    Count(a.constants + b.constants, a.public + b.public,
          a.private + b.private, a.constraints + b.constraints)

\* ----------------------------------------------------------- the scalar

\* Scalar::new(mode, value)
ScalarNew(mode, value) == [type |-> "Scalar", mode |-> mode, value |-> value]

\* A bit of a decomposition: a constant for a Constant scalar, otherwise a
\* private witness (a Public scalar allocates no public variable).
BitMode(mode) == IF mode = "Constant" THEN "Constant" ELSE "Private"

\* The decomposition of every operand value and bit mode, computed once:
\* bit i of the sequence is bit i - 1 of the value.
Decomposition ==
    [v \in ScalarValues |->
        [m \in {"Constant", "Private"} |->
            [i \in 1..SIZE_IN_BITS |->
                [value |-> BitOf(v, i - 1), mode |-> m]]]]

\* self.to_bits_le(): the SIZE_IN_BITS bits, least significant first.
ToBitsLE(self) == Decomposition[self.value][BitMode(self.mode)]

Reverse(s) == [i \in 1..Len(s) |-> s[Len(s) + 1 - i]]

\* self.to_bits_be(): the same bits, most significant first.
ToBitsBE(self) == Reverse(ToBitsLE(self))

\* What a decomposition of `bits` adds to the constraint system.
ToBitsCount(self, bits) ==
    IF self.mode = "Constant"
    THEN Count(Len(bits), 0, 0, 0)
    ELSE Count(0, 0, DECOMPOSE_PRIVATE, DECOMPOSE_CONSTRAINTS)

\* ------------------------------------------------------ the exact casts

Returned(result, count) ==
    [status |-> "returned", result |-> result, count |-> count]

Halted(count) ==
    [status |-> "halted", result |-> [type |-> "None"], count |-> count]

\* The constant counts a cast to Address or Group may allocate: any number
\* up to the limit in Constant mode, a fixed one otherwise.
ReinterpretConstants(mode) ==
    IF mode = "Constant"
    THEN {c \in 0..REINTERPRET_MAX_CONSTANTS : c <= MaxSampledConstants}
    ELSE {REINTERPRET_CONSTANTS}

\* What self.cast() to Address or Group adds; c is the number of constants
\* the construction allocates.
ReinterpretCount(self, c) ==
    IF self.mode = "Constant"
    THEN Count(c, 0, 0, 0)
    ELSE Count(c, 0, REINTERPRET_PRIVATE, REINTERPRET_CONSTRAINTS)

\* self.cast() to Address: the point whose x-coordinate is the scalar.
CastAddress(self, c) ==
    Returned([type |-> "Address", mode |-> BitMode(self.mode),
              value |-> self.value], ReinterpretCount(self, c))

\* self.cast() to Group.
CastGroup(self, c) ==
    Returned([type |-> "Group", mode |-> BitMode(self.mode),
              value |-> self.value], ReinterpretCount(self, c))

\* self.cast() to Field: the scalar's own field element.
CastField(self) ==
    Returned([type |-> "Field", mode |-> self.mode, value |-> self.value],
             ZeroCount)

\* self.cast() to Scalar.
CastScalar(self) == Returned(self, ZeroCount)

\* Integer::from_bits_le(bits): the integer is its bits.
FromBitsLE(I, bits) == [type |-> "Integer", itype |-> I, bits_le |-> bits]

\* ------------------------------------------------------ the lossy casts

ScalarCastLossyAddress(self, c) == CastAddress(self, c)

\* Mutant: takes the first element of the big-endian bits, not the last.
ScalarCastLossyBoolean_First(self) ==
    LET bits_be == ToBitsBE(self)
        count   == ToBitsCount(self, bits_be)
    IN  IF Len(bits_be) = 0
        THEN Halted(count)
        ELSE Returned([type |-> "Boolean", mode |-> bits_be[1].mode,
                       value |-> bits_be[1].value], count)

\* Mutant: rebuilds the bit as a constant of its value.
ScalarCastLossyBoolean_Constant(self) ==
    LET bits_be == ToBitsBE(self)
        count   == ToBitsCount(self, bits_be)
    IN  IF Len(bits_be) = 0
        THEN Halted(count)
        ELSE Returned([type |-> "Boolean", mode |-> "Constant",
                       value |-> bits_be[Len(bits_be)].value], count)

\* Mutant: enforces one more constraint when the extracted bit is set.
ScalarCastLossyBoolean_ValueCost(self) ==
    LET bits_be == ToBitsBE(self)
        count   == ToBitsCount(self, bits_be)
        bit     == bits_be[Len(bits_be)]
    IN  IF Len(bits_be) = 0
        THEN Halted(count)
        ELSE Returned([type |-> "Boolean", mode |-> bit.mode,
                       value |-> bit.value],
                      IF bit.value /\ self.mode # "Constant"
                      THEN AddCount(count, Count(0, 0, 0, 1)) ELSE count)

ScalarCastLossyBoolean(self) ==
    LET bits_be == ToBitsBE(self)
        count   == ToBitsCount(self, bits_be)
    IN  IF Len(bits_be) = 0
        THEN Halted(count)
        ELSE Returned([type |-> "Boolean",
                       mode |-> bits_be[Len(bits_be)].mode,
                       value |-> bits_be[Len(bits_be)].value], count)

ScalarCastLossyGroup(self, c) == CastGroup(self, c)

\* Mutant: reaches the field element through a decomposition.
ScalarCastLossyField_Decomposed(self) ==
    Returned(CastField(self).result, ToBitsCount(self, ToBitsLE(self)))

ScalarCastLossyField(self) == CastField(self)

\* Mutant: keeps the I.bits most significant bits.
ScalarCastLossyInteger_HighBits(self, I) ==
    LET bits_le == ToBitsLE(self)
        count   == ToBitsCount(self, bits_le)
    IN  IF I.bits > Len(bits_le)
        THEN Halted(count)
        ELSE Returned(FromBitsLE(I, SubSeq(bits_le, Len(bits_le) - I.bits + 1,
                                           Len(bits_le))), count)

\* Mutant: skips the decomposition of a zero scalar.
ScalarCastLossyInteger_SkipZero(self, I) ==
    LET bits_le == ToBitsLE(self)
        count   == IF \A i \in 1..Len(bits_le) : ~bits_le[i].value
                   THEN ZeroCount ELSE ToBitsCount(self, bits_le)
    IN  IF I.bits > Len(bits_le)
        THEN Halted(count)
        ELSE Returned(FromBitsLE(I, SubSeq(bits_le, 1, I.bits)), count)

\* Mutant: takes the width for a number of bytes and reads 8 * I.bits bits.
ScalarCastLossyInteger_Bytes(self, I) ==
    LET bits_le == ToBitsLE(self)
        count   == ToBitsCount(self, bits_le)
    IN  IF 8 * I.bits > Len(bits_le)
        THEN Halted(count)
        ELSE Returned(FromBitsLE(I, SubSeq(bits_le, 1, I.bits)), count)

\* Mutant: enforces the weighted sum of the retained bits with a constraint.
ScalarCastLossyInteger_WeightedSum(self, I) ==
    LET bits_le == ToBitsLE(self)
        count   == ToBitsCount(self, bits_le)
    IN  IF I.bits > Len(bits_le)
        THEN Halted(count)
        ELSE Returned(FromBitsLE(I, SubSeq(bits_le, 1, I.bits)),
                      IF self.mode = "Constant" THEN count
                      ELSE AddCount(count, Count(0, 0, 0, 1)))

\* Mutant: a signed target takes its sign from the scalar's top bit.
ScalarCastLossyInteger_SignExtend(self, I) ==
    LET bits_le == ToBitsLE(self)
        count   == ToBitsCount(self, bits_le)
        kept    == SubSeq(bits_le, 1, I.bits)
    IN  IF I.bits > Len(bits_le)
        THEN Halted(count)
        ELSE Returned(FromBitsLE(I, IF I.signed
                                    THEN [kept EXCEPT ![I.bits] =
                                              bits_le[Len(bits_le)]]
                                    ELSE kept), count)

ScalarCastLossyInteger(self, I) ==
    LET bits_le == ToBitsLE(self)
        count   == ToBitsCount(self, bits_le)
    IN  IF I.bits > Len(bits_le)
        THEN Halted(count)
        ELSE Returned(FromBitsLE(I, SubSeq(bits_le, 1, I.bits)), count)

\* Mutant: rebuilds the scalar from its decomposition.
ScalarCastLossyScalar_Decomposed(self) ==
    Returned(self, ToBitsCount(self, ToBitsLE(self)))

ScalarCastLossyScalar(self) == CastScalar(self)

\* ------------------------------------------------------------ the state

VARIABLES
    circuit,   \* the constraint system's counters
    trace,     \* what each cast so far emitted, in program order
    last       \* the latest cast: its operand, target and outcome

vars == <<circuit, trace, last>>

NoCast ==
    [kind |-> "None", itype |-> [bits |-> 0, signed |-> FALSE],
     source |-> ScalarNew("Constant", Zero),
     status |-> "none", result |-> [type |-> "None"], count |-> ZeroCount]

Init ==
    /\ circuit = ZeroCount
    /\ trace = <<>>
    /\ last = NoCast

CanCast == Len(trace) < MaxCasts /\ last.status # "halted"

\* One cast on the shared constraint system: the outcome's count is added to
\* the counters and a halt stops the synthesis.
Perform(kind, itype, self, outcome) ==
    /\ circuit' = AddCount(circuit, outcome.count)
    /\ trace' = Append(trace, [kind |-> kind, mode |-> self.mode,
                               count |-> outcome.count])
    /\ last' = [kind |-> kind, itype |-> itype, source |-> self,
                status |-> outcome.status, result |-> outcome.result,
                count |-> outcome.count]

NoType == [bits |-> 0, signed |-> FALSE]

CastLossyAddress(mode, value, c) ==
    /\ CanCast
    /\ LET self == ScalarNew(mode, value)
       IN  Perform("Address", NoType, self, ScalarCastLossyAddress(self, c))

CastLossyBoolean(mode, value) ==
    /\ CanCast
    /\ LET self == ScalarNew(mode, value)
       IN  Perform("Boolean", NoType, self, ScalarCastLossyBoolean(self))

CastLossyGroup(mode, value, c) ==
    /\ CanCast
    /\ LET self == ScalarNew(mode, value)
       IN  Perform("Group", NoType, self, ScalarCastLossyGroup(self, c))

CastLossyField(mode, value) ==
    /\ CanCast
    /\ LET self == ScalarNew(mode, value)
       IN  Perform("Field", NoType, self, ScalarCastLossyField(self))

CastLossyInteger(mode, value, I) ==
    /\ CanCast
    /\ LET self == ScalarNew(mode, value)
       IN  Perform("Integer", I, self, ScalarCastLossyInteger(self, I))

CastLossyScalar(mode, value) ==
    /\ CanCast
    /\ LET self == ScalarNew(mode, value)
       IN  Perform("Scalar", NoType, self, ScalarCastLossyScalar(self))

Next ==
    \E mode \in Modes, value \in ScalarValues :
        \/ \E c \in ReinterpretConstants(mode) :
               CastLossyAddress(mode, value, c)
        \/ CastLossyBoolean(mode, value)
        \/ \E c \in ReinterpretConstants(mode) :
               CastLossyGroup(mode, value, c)
        \/ CastLossyField(mode, value)
        \/ \E I \in IntegerTypes : CastLossyInteger(mode, value, I)
        \/ CastLossyScalar(mode, value)

Spec == Init /\ [][Next]_vars

\* ------------------------------------------------- reading the results

\* The weighted sum of n bits of `bits` from position `from` (1-based):
\* one digit of the integer the bits stand for.
RECURSIVE WeightedSum(_, _, _)
WeightedSum(bits, from, n) ==
    IF n = 0 THEN 0
    ELSE (IF from + n - 1 <= Len(bits) /\ bits[from + n - 1].value
          THEN 2 ^ (n - 1) ELSE 0)
         + WeightedSum(bits, from, n - 1)

\* The integer a bit sequence stands for, read unsigned, as a big value.
Unsigned(bits) ==
    [k \in 1..NumLimbs |-> WeightedSum(bits, (k - 1) * LimbBits + 1, LimbBits)]

\* value mod 2^W, digit by digit.
ModPow2(value, W) ==
    [k \in 1..NumLimbs |->
        IF k * LimbBits <= W THEN value[k]
        ELSE IF (k - 1) * LimbBits >= W THEN 0
        ELSE value[k] % (2 ^ (W - (k - 1) * LimbBits))]

\* The latest cast was to `kind` and returned.
Did(kind) == last.kind = kind /\ last.status = "returned"

\* The same cast as the latest one, on another operand value of its mode.
Recast(value, c) ==
    LET self == ScalarNew(last.source.mode, value)
    IN  CASE last.kind = "Address" -> ScalarCastLossyAddress(self, c)
          [] last.kind = "Boolean" -> ScalarCastLossyBoolean(self)
          [] last.kind = "Group"   -> ScalarCastLossyGroup(self, c)
          [] last.kind = "Field"   -> ScalarCastLossyField(self)
          [] last.kind = "Integer" -> ScalarCastLossyInteger(self, last.itype)
          [] OTHER                 -> ScalarCastLossyScalar(self)

\* The modes of the circuit values a result is made of.
ResultModes(result) ==
    IF result.type = "Integer"
    THEN {result.bits_le[i].mode : i \in 1..Len(result.bits_le)}
    ELSE {result.mode}

RECURSIVE SumConstraints(_)
SumConstraints(t) ==
    IF t = <<>> THEN ZeroCount
    ELSE AddCount(SumConstraints(SubSeq(t, 1, Len(t) - 1)), t[Len(t)].count)

IsPrefix(s, t) == Len(s) <= Len(t) /\ SubSeq(t, 1, Len(s)) = s

\* ---------------------------------------------------------------- claims

C2_ReductionLaw ==
    Did("Integer") =>
        /\ Len(last.result.bits_le) = last.itype.bits
        /\ Unsigned(last.result.bits_le)
             = ModPow2(last.source.value, last.itype.bits)
        /\ (last.source.value = Zero => Unsigned(last.result.bits_le) = Zero)

C2_Witness ==
    /\ Did("Integer")
    /\ last.itype = [bits |-> 8, signed |-> FALSE]
    /\ last.source.value = SignBits
    /\ Unsigned(last.result.bits_le)[1] = 130

\* C3: the cast to Scalar returns its operand unchanged and adds no
\* constant, variable or constraint.
C3_IdentityLaw ==
    Did("Scalar") =>
        /\ last.result = last.source
        /\ last.count = ZeroCount

C3_Witness ==
    /\ Did("Scalar")
    /\ last.source.mode = "Private"
    /\ last.source.value = Mixed
    /\ Len(trace) = 2
    /\ circuit.constraints = DECOMPOSE_CONSTRAINTS

\* C4: the constraints and the public and private variables a cast adds are
\* the same for every operand value of its mode, and a Constant-mode cast
\* adds no constraint.
C4_CostIndependentOfValue ==
    last.status # "none" =>
        /\ \A value \in ScalarValues :
           \A c \in ReinterpretConstants(last.source.mode) :
               LET other == Recast(value, c).count
               IN  /\ other.constraints = last.count.constraints
                   /\ other.public = last.count.public
                   /\ other.private = last.count.private
        /\ (last.source.mode = "Constant" => last.count.constraints = 0)

C4_Witness ==
    /\ Did("Integer")
    /\ last.itype = [bits |-> 128, signed |-> FALSE]
    /\ last.source.mode = "Private"
    /\ last.source.value = Mixed
    /\ last.count.constraints = Recast(Zero, 0).count.constraints
    /\ last.count.constraints > 0

\* C5: every lossy cast returns: the Boolean cast never finds the bit
\* sequence empty and the Integer cast never reads past its end, the
\* sequence being SIZE_IN_BITS long, which is non-zero and at least the
\* target width.
C5_AlwaysReturns ==
    last.status # "none" =>
        /\ last.status = "returned"
        /\ Len(ToBitsLE(last.source)) = SIZE_IN_BITS
        /\ Len(ToBitsBE(last.source)) > 0
        /\ (last.kind = "Integer" =>
               last.itype.bits <= Len(ToBitsLE(last.source)))

C5_Witness ==
    /\ Did("Integer")
    /\ last.itype.bits = 128
    /\ last.source.value = Zero
    /\ Len(trace) = 2
    /\ trace[1].kind = "Boolean"

\* C6: the cast to Field keeps the value and adds no constant, variable or
\* constraint in any mode.
C6_FieldLossless ==
    Did("Field") =>
        /\ last.result.type = "Field"
        /\ last.result.value = last.source.value
        /\ last.count = ZeroCount

C6_Witness ==
    /\ Did("Field")
    /\ last.source.mode = "Public"
    /\ last.source.value = HighOne
    /\ last.result.value = HighOne

\* C7: a cast to Boolean or to an integer of any width and signedness adds
\* 251 constants and nothing else for a Constant operand, and 501 private
\* variables and 503 constraints and nothing else otherwise.
C7_DecomposingCost ==
    (Did("Boolean") \/ Did("Integer")) =>
        last.count = IF last.source.mode = "Constant"
                     THEN Count(251, 0, 0, 0)
                     ELSE Count(0, 0, 501, 503)

C7_Witness ==
    /\ Did("Integer")
    /\ last.itype = [bits |-> 8, signed |-> TRUE]
    /\ last.source.mode = "Public"
    /\ last.count = Count(0, 0, 501, 503)
    /\ Len(trace) = 2
    /\ trace[1].kind = "Integer"
    /\ trace[1].mode = "Constant"
    /\ trace[1].count = Count(251, 0, 0, 0)

\* C8: a Constant scalar casts to a Constant result and a Public or Private
\* scalar to a result that is not Constant, for every target; the operand
\* keeps the mode it was made with.
C8_ModePropagates ==
    last.status = "returned" =>
        /\ (last.source.mode = "Constant"
               => ResultModes(last.result) = {"Constant"})
        /\ (last.source.mode # "Constant"
               => "Constant" \notin ResultModes(last.result))
        /\ last.source.mode = trace[Len(trace)].mode

C8_Witness ==
    /\ Did("Integer")
    /\ last.source.mode = "Public"
    /\ "Constant" \notin ResultModes(last.result)
    /\ Len(trace) = 2
    /\ trace[1].kind = "Boolean"
    /\ trace[1].mode = "Constant"

\* C9: the cast to an integer keeps bit positions and drops only the high
\* bits: bit i of the result is bit i of the scalar for every i below W,
\* scalars that agree below W cast to the same integer, and the sign bit of
\* a signed result is bit W - 1 of the scalar.
C9_TruncationKeepsLowBits ==
    Did("Integer") =>
        LET W == last.itype.bits
            bits == last.result.bits_le
        IN  /\ Len(bits) = W
            /\ \A i \in 0..(W - 1) :
                   bits[i + 1].value = BitOf(last.source.value, i)
            /\ \A value \in ScalarValues :
                   ModPow2(value, W) = ModPow2(last.source.value, W)
                       => Recast(value, 0).result = last.result
            /\ (last.itype.signed =>
                   bits[W].value = BitOf(last.source.value, W - 1))

C9_Witness ==
    /\ Did("Integer")
    /\ last.itype = [bits |-> 16, signed |-> TRUE]
    /\ last.source.value = HighOne
    /\ Recast(One, 0).result = last.result
    /\ last.result.bits_le[16].value = FALSE
    /\ BitOf(last.source.value, SIZE_IN_BITS - 1)

\* C10: casts only append to the constraint system: what earlier casts
\* emitted stays as it was and in its place, no counter ever decreases, the
\* counters are the sum of what the casts emitted in program order, and two
\* casts of the same kind on operands of the same mode emit the same
\* constraints and variables.
C10_AppendOnly ==
    /\ [](/\ circuit = SumConstraints(trace)
          /\ \A i, j \in 1..Len(trace) :
                (trace[i].kind = trace[j].kind /\ trace[i].mode = trace[j].mode)
                    => /\ trace[i].count.constraints = trace[j].count.constraints
                       /\ trace[i].count.public = trace[j].count.public
                       /\ trace[i].count.private = trace[j].count.private)
    /\ [][/\ IsPrefix(trace, trace')
          /\ Len(trace') = Len(trace) + 1
          /\ circuit'.constraints
               = circuit.constraints + trace'[Len(trace')].count.constraints
          /\ circuit'.constraints >= circuit.constraints
          /\ circuit'.constants >= circuit.constants
          /\ circuit'.public >= circuit.public
          /\ circuit'.private >= circuit.private]_vars

C10_Witness ==
    /\ Len(trace) = 2
    /\ trace[1].kind = "Integer"
    /\ trace[2].kind = "Integer"
    /\ trace[1].mode = "Private"
    /\ trace[2].mode = "Private"
    /\ circuit.constraints = 2 * DECOMPOSE_CONSTRAINTS
    /\ last.source.value = Mixed

====
